---- MODULE Spec2Model ----
(***************************************************************************)
(* Hierarchical todo items: the service layer of app/services/todo_service *)
(* (TodoItemService, TodoListService) over the todo_items and todo_lists   *)
(* tables, and the HTTP routes of app/routes (auth, todo) with the session *)
(* of one client.                                                          *)
(*                                                                         *)
(* items  the SQLAlchemy session's view of the todo_items table: what      *)
(*        every query of the running session reads (autoflush is on)       *)
(* db     the committed table: what db.session.commit() last wrote         *)
(* last   the last call: its name, target, argument and result, and        *)
(*        whether the row its chain update starts from was completed when  *)
(*        it was called; some calls add what they were given or returned   *)
(* lists  the todo_lists table                                             *)
(* users  the users table                                                  *)
(* session  the Flask session of the client: empty, or user_id and         *)
(*        username                                                         *)
(* txs    the calls of other clients that are under way: for each client   *)
(*        the call and the rows its SQLAlchemy session has read            *)
(***************************************************************************)
EXTENDS Integers, FiniteSets, Sequences, TLC

VARIABLES items, db, last, lists, users, session, txs

vars == <<items, db, last, lists, users, session, txs>>

----------------------------------------------------------------------------
(* Bounds of the model *)

MaxItems == 3
MaxChainItems == 4
NumLists == 2
MaxOrder == 2
MaxRouteItems == 2
MaxMovedRows == 2

ItemIds == 1..MaxItems
ListIds == 1..NumLists

\* Python's None, as a parent_id and as an id
None == 0

\* the error value None of the service functions ("no error")
OK == "ok"

VALID_PRIORITIES == {"low", "medium", "high", "urgent"}

----------------------------------------------------------------------------
(* The TodoItem model *)

\* a row of todo_items as the constructor and the column defaults leave it
TodoItem(list_id, parent_id, title, description, priority, order) ==
    [list_id |-> list_id, parent_id |-> parent_id, title |-> title,
     description |-> description, priority |-> priority, order |-> order,
     is_completed |-> FALSE, is_collapsed |-> FALSE]

\* the primary key SQLite gives the next row: the largest rowid plus one
NextId(I) ==
    IF DOMAIN I = {} THEN 1
    ELSE (CHOOSE m \in DOMAIN I : \A i \in DOMAIN I : i <= m) + 1

\* TodoItem.children: the rows whose parent_id is x (the relationship as
\* the service and the tests use it: parent.children is the list of the
\* rows under parent, child.parent the row above child)
children(I, x) == {c \in DOMAIN I : I[c].parent_id = x}

\* the parent chain of x, nearest first: x.parent, x.parent.parent, ...
\* (the walk is cut after as many steps as there are rows)
RECURSIVE ChainFrom(_, _, _)
ChainFrom(I, cur, fuel) ==
    IF cur = None \/ cur \notin DOMAIN I \/ fuel = 0 THEN <<>>
    ELSE <<cur>> \o ChainFrom(I, I[cur].parent_id, fuel - 1)

ParentChain(I, x) == ChainFrom(I, I[x].parent_id, Cardinality(DOMAIN I))

Ancestors(I, x) == {ParentChain(I, x)[k] : k \in 1..Len(ParentChain(I, x))}

\* TodoItem.get_all_descendants
Descendants(I, x) == {d \in DOMAIN I : x \in Ancestors(I, d)}

\* TodoItem.can_be_completed
can_be_completed(I, x) == \A c \in children(I, x) : I[c].is_completed

\* TodoItem.is_ancestor_of: self is on the parent chain of other
is_ancestor_of(I, self, other) == self \in Ancestors(I, other)

\* TodoItem.uncomplete_parent_chain: every ancestor of x, up to the root,
\* is marked incomplete; x itself is not touched
uncomplete_parent_chain(I, x) ==
    [i \in DOMAIN I |->
        IF i \in Ancestors(I, x) THEN [I[i] EXCEPT !.is_completed = FALSE]
        ELSE I[i]]

\* TodoItem.auto_complete_parent_chain: walking up from x.parent, an ancestor
\* whose children are all completed is completed; the walk stops at the first
\* ancestor that has an incomplete child
RECURSIVE AutoCompleteFrom(_, _, _)
AutoCompleteFrom(I, cur, fuel) ==
    IF cur = None \/ cur \notin DOMAIN I \/ fuel = 0 THEN I
    ELSE IF can_be_completed(I, cur)
         THEN AutoCompleteFrom([I EXCEPT ![cur].is_completed = TRUE],
                               I[cur].parent_id, fuel - 1)
         ELSE I

auto_complete_parent_chain(I, x) ==
    AutoCompleteFrom(I, I[x].parent_id, Cardinality(DOMAIN I))

----------------------------------------------------------------------------
(* TodoItemService *)

\* validate_parent without the test of the parent's list
validate_parent_any_list(I, parent_id, list_id) ==
    IF parent_id = None THEN OK
    ELSE IF parent_id \notin DOMAIN I THEN "Parent item not found"
    ELSE OK

\* validate_parent: the error message, or OK
validate_parent(I, parent_id, list_id) ==
    IF parent_id = None THEN OK
    ELSE IF parent_id \notin DOMAIN I THEN "Parent item not found"
    ELSE IF I[parent_id].list_id # list_id THEN "Parent item not in same list"
    ELSE OK

\* create_item without the parent chain update: the row is only added
create_item_parent_kept(I, list_id, parent_id, title, description, priority, order) ==
    [i \in DOMAIN I \cup {NextId(I)} |->
        IF i = NextId(I)
        THEN TodoItem(list_id, parent_id, title, description, priority, order)
        ELSE I[i]]

\* create_item: the table after db.session.add(item) and the parent chain
\* update
create_item(I, list_id, parent_id, title, description, priority, order) ==
    LET id == NextId(I)
        J  == [i \in DOMAIN I \cup {id} |->
                 IF i = id
                 THEN TodoItem(list_id, parent_id, title, description,
                               priority, order)
                 ELSE I[i]]
    IN  IF parent_id # None /\ parent_id \in DOMAIN I
           /\ I[parent_id].is_completed
        THEN uncomplete_parent_chain(
                 [J EXCEPT ![parent_id].is_completed = FALSE], parent_id)
        ELSE J

\* _handle_completion_update without the can_be_completed test
_handle_completion_update_unchecked(I, item, new_completed_state) ==
    IF ~new_completed_state /\ I[item].is_completed
    THEN [error |-> OK,
          items |-> uncomplete_parent_chain(
                        [I EXCEPT ![item].is_completed = FALSE], item)]
    ELSE [error |-> OK,
          items |-> IF new_completed_state
                    THEN auto_complete_parent_chain(
                             [I EXCEPT ![item].is_completed = TRUE], item)
                    ELSE [I EXCEPT ![item].is_completed = FALSE]]

\* _handle_completion_update without the call of auto_complete_parent_chain
_handle_completion_update_no_auto_complete(I, item, new_completed_state) ==
    IF new_completed_state /\ ~can_be_completed(I, item)
    THEN [error |-> "Cannot complete task: child tasks must be completed first",
          items |-> I]
    ELSE IF ~new_completed_state /\ I[item].is_completed
    THEN [error |-> OK,
          items |-> uncomplete_parent_chain(
                        [I EXCEPT ![item].is_completed = FALSE], item)]
    ELSE [error |-> OK,
          items |-> [I EXCEPT ![item].is_completed = new_completed_state]]

\* _handle_completion_update without the call of uncomplete_parent_chain
_handle_completion_update_no_uncomplete(I, item, new_completed_state) ==
    IF new_completed_state /\ ~can_be_completed(I, item)
    THEN [error |-> "Cannot complete task: child tasks must be completed first",
          items |-> I]
    ELSE [error |-> OK,
          items |-> IF new_completed_state
                    THEN auto_complete_parent_chain(
                             [I EXCEPT ![item].is_completed = TRUE], item)
                    ELSE [I EXCEPT ![item].is_completed = FALSE]]

\* _handle_completion_update with a walk that does not stop: every ancestor
\* whose children are all completed is completed, whatever lies below it
_handle_completion_update_walks_on(I, item, new_completed_state) ==
    IF new_completed_state /\ ~can_be_completed(I, item)
    THEN [error |-> "Cannot complete task: child tasks must be completed first",
          items |-> I]
    ELSE IF ~new_completed_state /\ I[item].is_completed
    THEN [error |-> OK,
          items |-> uncomplete_parent_chain(
                        [I EXCEPT ![item].is_completed = FALSE], item)]
    ELSE [error |-> OK,
          items |-> IF new_completed_state
                    THEN [i \in DOMAIN I |->
                            IF i = item \/ (i \in Ancestors(I, item)
                                            /\ can_be_completed(
                                                   [I EXCEPT ![item].is_completed = TRUE], i))
                            THEN [I[i] EXCEPT !.is_completed = TRUE]
                            ELSE I[i]]
                    ELSE [I EXCEPT ![item].is_completed = FALSE]]

\* _handle_completion_update with an uncompletion that cascades downwards:
\* the descendants of the item are marked incomplete with it
_handle_completion_update_cascades(I, item, new_completed_state) ==
    IF new_completed_state /\ ~can_be_completed(I, item)
    THEN [error |-> "Cannot complete task: child tasks must be completed first",
          items |-> I]
    ELSE IF ~new_completed_state /\ I[item].is_completed
    THEN [error |-> OK,
          items |-> uncomplete_parent_chain(
                        [i \in DOMAIN I |->
                            IF i = item \/ i \in Descendants(I, item)
                            THEN [I[i] EXCEPT !.is_completed = FALSE]
                            ELSE I[i]], item)]
    ELSE [error |-> OK,
          items |-> IF new_completed_state
                    THEN auto_complete_parent_chain(
                             [I EXCEPT ![item].is_completed = TRUE], item)
                    ELSE [I EXCEPT ![item].is_completed = FALSE]]

\* _handle_completion_update: the error (or OK) and the table it leaves
_handle_completion_update(I, item, new_completed_state) ==
    IF new_completed_state /\ ~can_be_completed(I, item)
    THEN [error |-> "Cannot complete task: child tasks must be completed first",
          items |-> I]
    ELSE IF ~new_completed_state /\ I[item].is_completed
    THEN [error |-> OK,
          items |-> uncomplete_parent_chain(
                        [I EXCEPT ![item].is_completed = FALSE], item)]
    ELSE [error |-> OK,
          items |-> IF new_completed_state
                    THEN auto_complete_parent_chain(
                             [I EXCEPT ![item].is_completed = TRUE], item)
                    ELSE [I EXCEPT ![item].is_completed = FALSE]]

\* a key of the patch dictionary applied as a plain assignment
SetField(I, item, data, key) ==
    IF key \in DOMAIN data THEN [I EXCEPT ![item][key] = data[key]] ELSE I

\* update_item: the error (or OK), the table the session holds when the
\* function returns, and whether it committed. The fields are applied in the
\* order of the code; an early return leaves what was applied before it in
\* the session, and only the last line commits.
update_item(I, item, data) ==
    LET I1 == SetField(I, item, data, "title")
        I2 == SetField(I1, item, data, "description")
        I3 == SetField(I2, item, data, "order")
        c  == IF "is_completed" \in DOMAIN data
              THEN _handle_completion_update(I3, item, data["is_completed"])
              ELSE [error |-> OK, items |-> I3]
        I4 == c.items
        I5 == SetField(I4, item, data, "is_collapsed")
    IN  IF c.error # OK
        THEN [error |-> c.error, items |-> I4, commit |-> FALSE]
        ELSE IF "priority" \in DOMAIN data
                /\ data["priority"] \notin VALID_PRIORITIES
        THEN [error |-> "Invalid priority", items |-> I5, commit |-> FALSE]
        ELSE [error |-> OK, items |-> SetField(I5, item, data, "priority"),
              commit |-> TRUE]

\* delete_item without the delete cascade: only the row itself is removed
delete_item_no_cascade(I, item) == [i \in DOMAIN I \ {item} |-> I[i]]

\* delete_item followed by the auto-complete walk from the parent of the
\* deleted item
delete_item_auto_completes(I, item) ==
    LET J == [i \in DOMAIN I \ ({item} \cup Descendants(I, item)) |-> I[i]]
    IN  AutoCompleteFrom(J, I[item].parent_id, Cardinality(DOMAIN J))

\* delete_item: db.session.delete(item) with the delete cascade of
\* TodoItem.children
delete_item(I, item) ==
    [i \in DOMAIN I \ ({item} \cup Descendants(I, item)) |-> I[i]]

\* move_to_list without the test for a top-level item
move_to_list_any_item(I, item, target_list_id) ==
    [error |-> OK, items |-> [I EXCEPT ![item].list_id = target_list_id],
     commit |-> TRUE]

\* move_to_list
move_to_list(I, item, target_list_id) ==
    IF I[item].parent_id # None
    THEN [error |-> "Can only move top-level items", items |-> I,
          commit |-> FALSE]
    ELSE [error |-> OK, items |-> [I EXCEPT ![item].list_id = target_list_id],
          commit |-> TRUE]

\* db.func.max(TodoItem.order) ... .scalar() or 0
MaxOf(S) == IF S = {} THEN None ELSE CHOOSE m \in S : \A o \in S : o <= m

\* _update_item_order. The query runs after item.parent_id was assigned and
\* the session flushes before a query, so the moved row is among the rows
\* the max() ranges over.
_update_item_order(I, item, new_parent_id) ==
    LET rows == IF new_parent_id = None
                THEN {i \in DOMAIN I : I[i].list_id = I[item].list_id
                                       /\ I[i].parent_id = None}
                ELSE {i \in DOMAIN I : I[i].parent_id = new_parent_id}
        max_order == MaxOf({I[i].order : i \in rows})
    IN  [I EXCEPT ![item].order = max_order + 1]

\* one branch of _handle_parent_chain_updates
UncompleteChainOf(I, parent_id) ==
    IF parent_id # None /\ parent_id \in DOMAIN I /\ I[parent_id].is_completed
    THEN uncomplete_parent_chain(I, parent_id)
    ELSE I

\* _handle_parent_chain_updates: the old parent's chain, then the new one's
_handle_parent_chain_updates(I, old_parent_id, new_parent_id) ==
    UncompleteChainOf(UncompleteChainOf(I, old_parent_id), new_parent_id)

\* validate_new_parent with the circular-reference test left to the item
\* itself: a move under a descendant passes
validate_new_parent_self_only(I, item, new_parent_id) ==
    IF new_parent_id = None THEN OK
    ELSE IF new_parent_id \notin DOMAIN I THEN "Parent item not found"
    ELSE IF I[new_parent_id].list_id # I[item].list_id
    THEN "Cannot move to different list"
    ELSE IF new_parent_id = item THEN "Cannot move to descendant"
    ELSE OK

\* validate_new_parent without the test of the new parent's list
validate_new_parent_any_list(I, item, new_parent_id) ==
    IF new_parent_id = None THEN OK
    ELSE IF new_parent_id \notin DOMAIN I THEN "Parent item not found"
    ELSE IF new_parent_id = item \/ is_ancestor_of(I, item, new_parent_id)
    THEN "Cannot move to descendant"
    ELSE OK

\* move_to_parent, the validation of the new parent: the error, or OK
validate_new_parent(I, item, new_parent_id) ==
    IF new_parent_id = None THEN OK
    ELSE IF new_parent_id \notin DOMAIN I THEN "Parent item not found"
    ELSE IF I[new_parent_id].list_id # I[item].list_id
    THEN "Cannot move to different list"
    ELSE IF new_parent_id = item \/ is_ancestor_of(I, item, new_parent_id)
    THEN "Cannot move to descendant"
    ELSE OK

\* move_to_parent
move_to_parent(I, item, new_parent_id) ==
    LET error == validate_new_parent(I, item, new_parent_id)
        old_parent_id == I[item].parent_id
        I1 == [I EXCEPT ![item].parent_id = new_parent_id]
        I2 == _update_item_order(I1, item, new_parent_id)
    IN  IF error # OK THEN [error |-> error, items |-> I, commit |-> FALSE]
        ELSE IF old_parent_id = new_parent_id
        THEN [error |-> OK, items |-> I, commit |-> FALSE]
        ELSE [error |-> OK,
              items |-> _handle_parent_chain_updates(I2, old_parent_id,
                                                     new_parent_id),
              commit |-> TRUE]

----------------------------------------------------------------------------
(* TodoListService *)

\* a row of todo_lists
TodoList(user_id, title, description) ==
    [user_id |-> user_id, title |-> title, description |-> description]

\* create_list: the table after db.session.add(todo_list)
create_list(L, user_id, title, description) ==
    [l \in DOMAIN L \cup {NextId(L)} |->
        IF l = NextId(L) THEN TodoList(user_id, title, description) ELSE L[l]]

\* TodoList.items: the rows of todo_items whose list_id is the list
list_items(I, todo_list) == {i \in DOMAIN I : I[i].list_id = todo_list}

\* delete_list: db.session.delete(todo_list) with the delete cascade of
\* TodoList.items, which goes on along TodoItem.children of every row it
\* deletes
delete_list(L, I, todo_list) ==
    LET gone == list_items(I, todo_list)
                \cup UNION {Descendants(I, i) : i \in list_items(I, todo_list)}
    IN  [lists |-> [l \in DOMAIN L \ {todo_list} |-> L[l]],
         items |-> [i \in DOMAIN I \ gone |-> I[i]]]

\* complete_all_tasks counting every row of the list, flipped or not
complete_all_tasks_counts_all(I, list_id) ==
    [count |-> Cardinality({i \in DOMAIN I : I[i].list_id = list_id}),
     items |-> [i \in DOMAIN I |->
                  IF I[i].list_id = list_id
                  THEN [I[i] EXCEPT !.is_completed = TRUE]
                  ELSE I[i]]]

\* complete_all_tasks: the table it leaves and the count it returns
complete_all_tasks(I, list_id) ==
    [count |-> Cardinality({i \in DOMAIN I : I[i].list_id = list_id
                                             /\ ~I[i].is_completed}),
     items |-> [i \in DOMAIN I |->
                  IF I[i].list_id = list_id
                  THEN [I[i] EXCEPT !.is_completed = TRUE]
                  ELSE I[i]]]

----------------------------------------------------------------------------
(* The User model, AuthenticationService and PermissionService *)

\* werkzeug's generate_password_hash: the stored value is not the password,
\* and check_password_hash accepts exactly the password it was made from
generate_password_hash(password) == <<"hash", password>>
check_password_hash(pwhash, password) ==
    pwhash = generate_password_hash(password)

\* a row of users after User(username, email) and set_password(password)
User(username, email, password) ==
    [username |-> username, email |-> email,
     password_hash |-> generate_password_hash(password)]

\* LocalAuthStrategy.authenticate: the id of the user, or None
authenticate(U, username, password) ==
    LET found == {u \in DOMAIN U : U[u].username = username}
    IN  IF found = {} THEN None
        ELSE LET user == CHOOSE u \in found : \A v \in found : u <= v
             IN  IF check_password_hash(U[user].password_hash, password)
                 THEN user ELSE None

\* register_user testing only the username for an existing user
register_user_username_only(U, username, email, password) ==
    IF \E u \in DOMAIN U : U[u].username = username
    THEN [user |-> None, users |-> U]
    ELSE [user |-> NextId(U),
          users |-> [u \in DOMAIN U \cup {NextId(U)} |->
                       IF u = NextId(U) THEN User(username, email, password)
                       ELSE U[u]]]

\* register_user: the id of the new user (None when the username or the
\* email is taken) and the table it leaves
register_user(U, username, email, password) ==
    IF \E u \in DOMAIN U : U[u].username = username \/ U[u].email = email
    THEN [user |-> None, users |-> U]
    ELSE [user |-> NextId(U),
          users |-> [u \in DOMAIN U \cup {NextId(U)} |->
                       IF u = NextId(U) THEN User(username, email, password)
                       ELSE U[u]]]

\* create_session
create_session(U, user) == [user_id |-> user, username |-> U[user].username]

\* destroy_session leaving the session as it is
destroy_session_kept(s) == s

\* destroy_session: session.clear()
destroy_session(s) == <<>>

\* PermissionService.get_current_user_id: session.get('user_id')
get_current_user_id(s) == IF "user_id" \in DOMAIN s THEN s.user_id ELSE None

\* PermissionService.is_authenticated
is_authenticated(s) == get_current_user_id(s) # None

\* owns_list without the comparison of the owner
owns_list_any_user(s, L, list_id) ==
    IF get_current_user_id(s) = None THEN FALSE
    ELSE list_id \in DOMAIN L

\* PermissionService.owns_list
owns_list(s, L, list_id) ==
    IF get_current_user_id(s) = None THEN FALSE
    ELSE IF list_id \notin DOMAIN L THEN FALSE
    ELSE L[list_id].user_id = get_current_user_id(s)

\* owns_item without the comparison of the owner
owns_item_any_user(s, L, I, item_id) ==
    IF get_current_user_id(s) = None THEN FALSE
    ELSE item_id \in DOMAIN I

\* PermissionService.owns_item: the owner of the list the item is in. (For a
\* row whose list_id names no list item.list is None; no request leaves such
\* a row, see ItemsHaveLists.)
owns_item(s, L, I, item_id) ==
    IF get_current_user_id(s) = None THEN FALSE
    ELSE IF item_id \notin DOMAIN I THEN FALSE
    ELSE /\ I[item_id].list_id \in DOMAIN L
         /\ L[I[item_id].list_id].user_id = get_current_user_id(s)

----------------------------------------------------------------------------
(* The state machine: one action per service call *)

\* the inputs the calls are tried with
ParentArgs == {None} \cup ItemIds
CreateOrders == {0}
CreatePriorities == {"medium"}
CompletionPatches == {[is_completed |-> TRUE], [is_completed |-> FALSE]}
TxPatches ==
    {[title |-> "t1", description |-> "d1", order |-> 1, is_completed |-> TRUE],
     [is_completed |-> TRUE, is_collapsed |-> TRUE, priority |-> "bogus"],
     [is_completed |-> FALSE]}

Call(op, id, arg, res, was_completed) ==
    [op |-> op, id |-> id, arg |-> arg, res |-> res,
     was_completed |-> was_completed]

\* the completion flag of a row, FALSE for None and for a missing row
Completed(I, x) == x # None /\ x \in DOMAIN I /\ I[x].is_completed

\* what db.session.commit() leaves committed
Committed(r) == IF r.commit THEN r.items ELSE db

Init ==
    /\ items = <<>>
    /\ db = <<>>
    /\ last = Call("init", None, None, OK, FALSE)
    /\ lists = <<>>
    /\ users = <<>>
    /\ session = <<>>
    /\ txs = <<>>

\* validate_parent, then create_item
CreateItem(list_id, parent_id, priority, order) ==
    LET error == validate_parent(items, parent_id, list_id)
    IN  /\ NextId(items) <= MaxChainItems
        /\ IF error # OK
           THEN /\ UNCHANGED <<items, db>>
                /\ last' = Call("create_item", None, parent_id, error,
                                 Completed(items, parent_id))
                            @@ [list_id |-> list_id]
           ELSE /\ items' = create_item(items, list_id, parent_id, "t0", "d0",
                                        priority, order)
                /\ db' = items'
                /\ last' = Call("create_item", NextId(items), parent_id, OK,
                                 Completed(items, parent_id))
                            @@ [list_id |-> list_id]
        /\ UNCHANGED <<lists, users, session, txs>>

UpdateItem(item, data) ==
    LET r == update_item(items, item, data)
    IN  /\ items' = r.items
        /\ db' = Committed(r)
        /\ last' = Call("update_item", item, data, r.error,
                        Completed(items, item))
        /\ UNCHANGED <<lists, users, session, txs>>

DeleteItem(item) ==
    /\ items' = delete_item(items, item)
    /\ db' = items'
    /\ last' = Call("delete_item", item, None, OK, Completed(items, item))
                @@ [removed |-> {item} \cup Descendants(items, item),
                    parent_id |-> items[item].parent_id]
    /\ UNCHANGED <<lists, users, session, txs>>

MoveToList(item, target_list_id) ==
    LET r == move_to_list(items, item, target_list_id)
    IN  /\ items' = r.items
        /\ db' = Committed(r)
        /\ last' = Call("move_to_list", item, target_list_id, r.error, FALSE)
        /\ UNCHANGED <<lists, users, session, txs>>

MoveToParent(item, new_parent_id) ==
    LET r == move_to_parent(items, item, new_parent_id)
    IN  /\ r.items[item].order <= MaxOrder
        /\ items' = r.items
        /\ db' = Committed(r)
        /\ last' = Call("move_to_parent", item, new_parent_id, r.error,
                        Completed(items, new_parent_id))
        /\ UNCHANGED <<lists, users, session, txs>>

CompleteAllTasks(list_id) ==
    LET r == complete_all_tasks(items, list_id)
    IN  /\ items' = r.items
        /\ db' = items'
        /\ last' = Call("complete_all_tasks", None, list_id, OK, FALSE)
                    @@ [count |-> r.count]
        /\ UNCHANGED <<lists, users, session, txs>>

\* the end of the application context: db.session.remove() drops what the
\* session holds uncommitted
RemoveSession ==
    /\ items' = db
    /\ UNCHANGED db
    /\ last' = Call("remove_session", None, None, OK, FALSE)
    /\ UNCHANGED <<lists, users, session, txs>>

Next ==
    \/ /\ NextId(items) <= MaxItems
       /\ \E l \in ListIds, p \in ParentArgs, pr \in CreatePriorities,
             o \in CreateOrders :
              CreateItem(l, p, pr, o)
    \/ \E i \in DOMAIN items, d \in CompletionPatches : UpdateItem(i, d)
    \/ \E i \in DOMAIN items : DeleteItem(i)
    \/ \E i \in DOMAIN items, l \in ListIds : MoveToList(i, l)
    \/ \E i \in DOMAIN items, p \in ParentArgs : MoveToParent(i, p)
    \/ \E l \in ListIds : CompleteAllTasks(l)

Spec == Init /\ [][Next]_vars

\* the calls of one session with patches of several fields, and its end
NextTx ==
    \/ /\ NextId(items) <= MaxItems
       /\ \E p \in ParentArgs : CreateItem(1, p, "medium", 0)
    \/ \E i \in DOMAIN items, d \in TxPatches : UpdateItem(i, d)
    \/ CompleteAllTasks(1)
    \/ RemoveSession

SpecTx == Init /\ [][NextTx]_vars

\* the calls on the trees of one list with up to MaxChainItems items: an item
\* is created as a root item or under an item that exists, and a root item
\* is moved under an item that exists
NextChain ==
    \/ \E p \in {None} \cup DOMAIN items : CreateItem(1, p, "medium", 0)
    \/ \E i \in DOMAIN items, d \in CompletionPatches : UpdateItem(i, d)
    \/ \E i \in DOMAIN items, p \in DOMAIN items :
           items[i].parent_id = None /\ MoveToParent(i, p)

SpecChain == Init /\ [][NextChain]_vars

\* TodoListService.create_list for a user id
CreateList(user_id) ==
    /\ NextId(lists) <= NumLists
    /\ lists' = create_list(lists, user_id, "l0", "d0")
    /\ last' = Call("create_list", NextId(lists), user_id, OK, FALSE)
    /\ UNCHANGED <<items, db, users, session, txs>>

\* TodoListService.delete_list
DeleteList(todo_list) ==
    LET r == delete_list(lists, items, todo_list)
    IN  /\ lists' = r.lists
        /\ items' = r.items
        /\ db' = items'
        /\ last' = Call("delete_list", todo_list, None, OK, FALSE)
        /\ UNCHANGED <<users, session, txs>>

\* the calls on lists that exist: lists are created and deleted, items are
\* created in them and moved between them
NextLists ==
    \/ CreateList(1)
    \/ /\ NextId(items) <= MaxItems
       /\ \E l \in DOMAIN lists, p \in ParentArgs :
              CreateItem(l, p, "medium", 0)
    \/ \E i \in DOMAIN items, l \in DOMAIN lists : MoveToList(i, l)
    \/ \E i \in DOMAIN items : DeleteItem(i)
    \/ \E l \in DOMAIN lists : DeleteList(l)

SpecLists == Init /\ [][NextLists]_vars

\* the same calls with move_to_list given any list id, the id of a list that
\* exists or not: target_list_id is an integer the function takes as it comes
NextListTargets ==
    \/ CreateList(1)
    \/ /\ NextId(items) <= MaxItems
       /\ \E l \in DOMAIN lists, p \in ParentArgs :
              CreateItem(l, p, "medium", 0)
    \/ \E i \in DOMAIN items, l \in ListIds : MoveToList(i, l)
    \/ \E i \in DOMAIN items : DeleteItem(i)
    \/ \E l \in DOMAIN lists : DeleteList(l)

SpecListTargets == Init /\ [][NextListTargets]_vars

----------------------------------------------------------------------------
(* The state machine of the HTTP API: one action per route, for one client *)

\* the fields a register or login request carries; "" is a missing field
Usernames == {"", "al", "alice", "bob"}
Emails == {"", "alice@x.org", "bob@x.org"}
Passwords == {"", "abc", "secret1", "secret2"}

\* POST /api/auth/register: the status it answers, before register_user
register_checks(username, email, password) ==
    IF username = "" \/ email = "" \/ password = "" THEN 400
    ELSE IF Len(username) < 3 \/ Len(username) > 80 THEN 400
    ELSE IF Len(password) < 6 THEN 400
    ELSE 200

\* POST /api/auth/register
Register(username, email, password) ==
    LET data == [username |-> username, email |-> email, password |-> password]
        status == register_checks(username, email, password)
        r == register_user(users, username, email, password)
    IN  /\ IF status # 200
           THEN /\ UNCHANGED <<users, session>>
                /\ last' = Call("POST /register", None, data, status, FALSE)
           ELSE IF r.user = None
           THEN /\ UNCHANGED <<users, session>>
                /\ last' = Call("POST /register", None, data, 409, FALSE)
           ELSE /\ users' = r.users
                /\ session' = create_session(r.users, r.user)
                /\ last' = Call("POST /register", r.user, data, 201, FALSE)
        /\ UNCHANGED <<items, db, lists, txs>>

\* POST /api/auth/login
Login(username, password) ==
    LET data == [username |-> username, password |-> password]
        user == authenticate(users, username, password)
    IN  /\ IF username = "" \/ password = ""
           THEN /\ UNCHANGED session
                /\ last' = Call("POST /login", None, data, 400, FALSE)
           ELSE IF user = None
           THEN /\ UNCHANGED session
                /\ last' = Call("POST /login", None, data, 401, FALSE)
           ELSE /\ session' = create_session(users, user)
                /\ last' = Call("POST /login", user, data, 200, FALSE)
        /\ UNCHANGED <<items, db, lists, users, txs>>

\* POST /api/auth/logout
Logout ==
    /\ session' = destroy_session(session)
    /\ last' = Call("POST /logout", None, None, 200, FALSE)
    /\ UNCHANGED <<items, db, lists, users, txs>>

\* GET /api/auth/me
GetCurrentUser ==
    LET status == IF ~is_authenticated(session) THEN 401
                  ELSE IF get_current_user_id(session) \notin DOMAIN users
                  THEN 404
                  ELSE 200
    IN  /\ last' = Call("GET /me", get_current_user_id(session), None, status,
                        FALSE)
        /\ UNCHANGED <<items, db, lists, users, session, txs>>

\* GET /api/lists
GetLists ==
    LET status == IF ~is_authenticated(session) THEN 401 ELSE 200
    IN  /\ last' = Call("GET /lists", None, None, status, FALSE)
        /\ UNCHANGED <<items, db, lists, users, session, txs>>

\* the requests of one client to the authentication routes and to two
\* protected routes
NextAuth ==
    \/ \E u \in Usernames, e \in Emails, p \in Passwords : Register(u, e, p)
    \/ \E u \in Usernames, p \in Passwords : Login(u, p)
    \/ Logout
    \/ GetCurrentUser
    \/ GetLists

SpecAuth == Init /\ [][NextAuth]_vars

\* the JSON bodies the todo routes are tried with; <<>> is an empty body
ListBodies == {<<>>, [title |-> "l1"]}
ItemBodies == {<<>>, [is_completed |-> TRUE], [is_completed |-> FALSE]}
MoveBodies == {<<>>} \cup {[target_list_id |-> l] : l \in ListIds}

\* the item ids of the paths and the parent ids of the bodies
RouteItemIds == 1..MaxRouteItems
RouteParentArgs == {None} \cup RouteItemIds

\* a request that writes nothing: only its answer is recorded
Answer(op, id, arg, status) ==
    /\ last' = Call(op, id, arg, status, FALSE)
    /\ UNCHANGED <<items, db, lists, users, session, txs>>

\* POST /api/lists
RouteCreateList(data) ==
    IF ~is_authenticated(session) THEN Answer("POST /lists", None, data, 401)
    ELSE IF "title" \notin DOMAIN data
    THEN Answer("POST /lists", None, data, 400)
    ELSE /\ NextId(lists) <= NumLists
         /\ lists' = create_list(lists, get_current_user_id(session),
                                 data.title, None)
         /\ last' = Call("POST /lists", NextId(lists), data, 201, FALSE)
         /\ UNCHANGED <<items, db, users, session, txs>>

\* GET /api/lists/<list_id>
RouteGetList(list_id) ==
    LET status == IF ~is_authenticated(session) THEN 401
                  ELSE IF ~owns_list(session, lists, list_id) THEN 403
                  ELSE IF list_id \notin DOMAIN lists THEN 404
                  ELSE 200
    IN  /\ last' = Call("GET /lists/<id>", list_id, None, status, FALSE)
        /\ UNCHANGED <<items, db, lists, users, session, txs>>

\* PUT /api/lists/<list_id>
RouteUpdateList(list_id, data) ==
    IF ~is_authenticated(session)
    THEN Answer("PUT /lists/<id>", list_id, data, 401)
    ELSE IF ~owns_list(session, lists, list_id)
    THEN Answer("PUT /lists/<id>", list_id, data, 403)
    ELSE IF data = <<>> THEN Answer("PUT /lists/<id>", list_id, data, 400)
    ELSE IF list_id \notin DOMAIN lists
    THEN Answer("PUT /lists/<id>", list_id, data, 404)
    ELSE /\ lists' = [lists EXCEPT ![list_id].title = data.title]
         /\ last' = Call("PUT /lists/<id>", list_id, data, 200, FALSE)
         /\ UNCHANGED <<items, db, users, session, txs>>

\* DELETE /api/lists/<list_id>
RouteDeleteList(list_id) ==
    IF ~is_authenticated(session)
    THEN Answer("DELETE /lists/<id>", list_id, None, 401)
    ELSE IF ~owns_list(session, lists, list_id)
    THEN Answer("DELETE /lists/<id>", list_id, None, 403)
    ELSE IF list_id \notin DOMAIN lists
    THEN Answer("DELETE /lists/<id>", list_id, None, 404)
    ELSE /\ lists' = delete_list(lists, items, list_id).lists
         /\ items' = delete_list(lists, items, list_id).items
         /\ db' = items'
         /\ last' = Call("DELETE /lists/<id>", list_id, None, 200, FALSE)
         /\ UNCHANGED <<users, session, txs>>

\* PATCH /api/lists/<list_id>/complete-all
RouteCompleteAllTasks(list_id) ==
    IF ~is_authenticated(session)
    THEN Answer("PATCH /lists/<id>/complete-all", list_id, None, 401)
    ELSE IF ~owns_list(session, lists, list_id)
    THEN Answer("PATCH /lists/<id>/complete-all", list_id, None, 403)
    ELSE IF list_id \notin DOMAIN lists
    THEN Answer("PATCH /lists/<id>/complete-all", list_id, None, 404)
    ELSE /\ items' = complete_all_tasks(items, list_id).items
         /\ db' = items'
         /\ last' = Call("PATCH /lists/<id>/complete-all", list_id, None, 200,
                         FALSE)
         /\ UNCHANGED <<lists, users, session, txs>>

\* POST /api/items; list_id None is a body without list_id
RouteCreateItem(list_id, parent_id) ==
    LET data == [list_id |-> list_id, parent_id |-> parent_id]
    IN  IF ~is_authenticated(session)
        THEN Answer("POST /items", None, data, 401)
        ELSE IF list_id = None THEN Answer("POST /items", None, data, 400)
        ELSE IF ~owns_list(session, lists, list_id)
        THEN Answer("POST /items", None, data, 403)
        ELSE IF parent_id # None /\ parent_id \notin DOMAIN items
        THEN Answer("POST /items", None, data, 404)
        ELSE IF parent_id # None /\ items[parent_id].list_id # list_id
        THEN Answer("POST /items", None, data, 400)
        ELSE /\ NextId(items) <= MaxRouteItems
             /\ items' = create_item(items, list_id, parent_id, "t0", None,
                                     "medium", 0)
             /\ db' = items'
             /\ last' = Call("POST /items", NextId(items), data, 201, FALSE)
             /\ UNCHANGED <<lists, users, session, txs>>

\* GET /api/items/<item_id>
RouteGetItem(item_id) ==
    LET status == IF ~is_authenticated(session) THEN 401
                  ELSE IF ~owns_item(session, lists, items, item_id) THEN 403
                  ELSE IF item_id \notin DOMAIN items THEN 404
                  ELSE 200
    IN  /\ last' = Call("GET /items/<id>", item_id, None, status, FALSE)
        /\ UNCHANGED <<items, db, lists, users, session, txs>>

\* PUT /api/items/<item_id>. A 400 after an assignment returns without a
\* commit and the session is removed with the request: nothing is written.
RouteUpdateItem(item_id, data) ==
    IF ~is_authenticated(session)
    THEN Answer("PUT /items/<id>", item_id, data, 401)
    ELSE IF ~owns_item(session, lists, items, item_id)
    THEN Answer("PUT /items/<id>", item_id, data, 403)
    ELSE IF data = <<>> THEN Answer("PUT /items/<id>", item_id, data, 400)
    ELSE IF item_id \notin DOMAIN items
    THEN Answer("PUT /items/<id>", item_id, data, 404)
    ELSE IF update_item(items, item_id, data).error # OK
    THEN Answer("PUT /items/<id>", item_id, data, 400)
    ELSE /\ items' = update_item(items, item_id, data).items
         /\ db' = items'
         /\ last' = Call("PUT /items/<id>", item_id, data, 200, FALSE)
         /\ UNCHANGED <<lists, users, session, txs>>

\* DELETE /api/items/<item_id>
RouteDeleteItem(item_id) ==
    IF ~is_authenticated(session)
    THEN Answer("DELETE /items/<id>", item_id, None, 401)
    ELSE IF ~owns_item(session, lists, items, item_id)
    THEN Answer("DELETE /items/<id>", item_id, None, 403)
    ELSE IF item_id \notin DOMAIN items
    THEN Answer("DELETE /items/<id>", item_id, None, 404)
    ELSE /\ items' = delete_item(items, item_id)
         /\ db' = items'
         /\ last' = Call("DELETE /items/<id>", item_id, None, 200, FALSE)
         /\ UNCHANGED <<lists, users, session, txs>>

\* PATCH /api/items/<item_id>/move
RouteMoveItem(item_id, data) ==
    IF ~is_authenticated(session)
    THEN Answer("PATCH /items/<id>/move", item_id, data, 401)
    ELSE IF ~owns_item(session, lists, items, item_id)
    THEN Answer("PATCH /items/<id>/move", item_id, data, 403)
    ELSE IF data = <<>> THEN Answer("PATCH /items/<id>/move", item_id, data, 400)
    ELSE IF item_id \notin DOMAIN items
    THEN Answer("PATCH /items/<id>/move", item_id, data, 404)
    ELSE IF items[item_id].parent_id # None
    THEN Answer("PATCH /items/<id>/move", item_id, data, 400)
    ELSE IF ~owns_list(session, lists, data.target_list_id)
    THEN Answer("PATCH /items/<id>/move", item_id, data, 404)
    ELSE /\ items' = [items EXCEPT ![item_id].list_id = data.target_list_id]
         /\ db' = items'
         /\ last' = Call("PATCH /items/<id>/move", item_id, data, 200, FALSE)
         /\ UNCHANGED <<lists, users, session, txs>>

\* PATCH /api/items/<item_id>/move-to-parent
RouteMoveItemToParent(item_id, new_parent_id) ==
    LET data == [new_parent_id |-> new_parent_id]
        error == validate_new_parent(items, item_id, new_parent_id)
        r == move_to_parent(items, item_id, new_parent_id)
    IN  IF ~is_authenticated(session)
        THEN Answer("PATCH /items/<id>/move-to-parent", item_id, data, 401)
        ELSE IF ~owns_item(session, lists, items, item_id)
        THEN Answer("PATCH /items/<id>/move-to-parent", item_id, data, 403)
        ELSE IF item_id \notin DOMAIN items
        THEN Answer("PATCH /items/<id>/move-to-parent", item_id, data, 404)
        ELSE IF error # OK
        THEN Answer("PATCH /items/<id>/move-to-parent", item_id, data,
                    IF error = "Parent item not found" THEN 404 ELSE 400)
        ELSE /\ r.items[item_id].order <= MaxOrder
             /\ items' = r.items
             /\ db' = items'
             /\ last' = Call("PATCH /items/<id>/move-to-parent", item_id, data,
                             200, FALSE)
             /\ UNCHANGED <<lists, users, session, txs>>

\* the requests of one client that registers and logs in as one of two
\* users and calls the todo routes with every list id and item id
NextRoutes ==
    \/ Register("alice", "alice@x.org", "secret1")
    \/ Register("bob", "bob@x.org", "secret1")
    \/ \E u \in {"alice", "bob"} : Login(u, "secret1")
    \/ Logout
    \/ \E d \in ListBodies : RouteCreateList(d)
    \/ \E l \in ListIds : RouteGetList(l)
    \/ \E l \in ListIds, d \in ListBodies : RouteUpdateList(l, d)
    \/ \E l \in ListIds : RouteDeleteList(l)
    \/ \E l \in ListIds : RouteCompleteAllTasks(l)
    \/ \E l \in ListIds \cup {None}, p \in RouteParentArgs : RouteCreateItem(l, p)
    \/ \E i \in RouteItemIds : RouteGetItem(i)
    \/ \E i \in RouteItemIds, d \in ItemBodies : RouteUpdateItem(i, d)
    \/ \E i \in RouteItemIds : RouteDeleteItem(i)
    \/ \E i \in RouteItemIds, d \in MoveBodies : RouteMoveItem(i, d)
    \/ \E i \in RouteItemIds, p \in RouteParentArgs : RouteMoveItemToParent(i, p)

SpecRoutes == Init /\ [][NextRoutes]_vars

\* the calls that write the priority column: create_item with the priority
\* it is given (the default included) and update_item with a priority patch
PriorityArgs == {"medium", "urgent", "bogus"}
PriorityPatches == {[priority |-> "high"], [priority |-> "none"]}

NextPriority ==
    \/ /\ NextId(items) <= MaxItems
       /\ \E pr \in PriorityArgs : CreateItem(1, None, pr, 0)
    \/ \E i \in DOMAIN items, d \in PriorityPatches : UpdateItem(i, d)

SpecPriority == Init /\ [][NextPriority]_vars

----------------------------------------------------------------------------
(* Calls of two clients at the same time. Each request has a SQLAlchemy    *)
(* session of its own; the service takes no lock and the rows carry no     *)
(* version column, so the reads of a call and its commit are two steps,    *)
(* and the commit of another call can fall between them.                   *)

Clients == {1, 2}

\* a call under way: the operation, the item, the argument, and the rows as
\* the session of the call has read them
Tx(op, item, arg, read) == [op |-> op, id |-> item, arg |-> arg, read |-> read]

\* the operation of a call, run on the rows I
RunOp(I, t) ==
    IF t.op = "update_item" THEN update_item(I, t.id, t.arg)
    ELSE move_to_parent(I, t.id, t.arg)

\* db.session.commit() of a session that read the rows `read` and holds the
\* rows J: the flush writes the columns the session changed, of the rows it
\* changed, into the committed table D; every other column is left as it is
\* in D
Flush(D, read, J) ==
    [i \in DOMAIN D |->
        IF i \notin DOMAIN read THEN D[i]
        ELSE [f \in DOMAIN D[i] |->
                 IF J[i][f] # read[i][f] THEN J[i][f] ELSE D[i][f]]]

\* a client calls update_item or move_to_parent: its session reads the
\* committed rows
Begin(c, op, item, arg) ==
    /\ c \notin DOMAIN txs
    /\ txs' = [d \in DOMAIN txs \cup {c} |->
                 IF d = c THEN Tx(op, item, arg, db) ELSE txs[d]]
    /\ last' = Call("begin", item, arg, OK, FALSE)
    /\ UNCHANGED <<items, db, lists, users, session>>

\* the call of the client comes to its end: the operation has run on the
\* rows the session read, and db.session.commit() writes what it changed
\* (nothing when it returned before the commit)
Commit(c) ==
    /\ c \in DOMAIN txs
    /\ LET t == txs[c]
           r == RunOp(t.read, t)
       IN  /\ r.items[t.id].order <= MaxOrder
           /\ db' = IF r.commit THEN Flush(db, t.read, r.items) ELSE db
           /\ items' = db'
           /\ last' = Call("commit", t.id, t.arg, r.error, FALSE)
                       @@ [tx_op |-> t.op, read |-> t.read, before |-> db]
    /\ txs' = [d \in DOMAIN txs \ {c} |-> txs[d]]
    /\ UNCHANGED <<lists, users, session>>

\* items are created while no call is under way; then the two clients call
\* update_item on them, and move_to_parent while the table has at most
\* MaxMovedRows rows
NextConc ==
    \/ /\ txs = <<>>
       /\ NextId(items) <= MaxItems
       /\ \E p \in ParentArgs : CreateItem(1, p, "medium", 0)
    \/ \E c \in Clients, i \in DOMAIN db, d \in CompletionPatches :
           Begin(c, "update_item", i, d)
    \/ /\ Cardinality(DOMAIN db) <= MaxMovedRows
       /\ \E c \in Clients, i \in DOMAIN db, p \in ParentArgs :
              Begin(c, "move_to_parent", i, p)
    \/ \E c \in Clients : Commit(c)

SpecConc == Init /\ [][NextConc]_vars

----------------------------------------------------------------------------
(* Claims *)

\* the item with its parent chain above it: <<x, x.parent, ..., root>>
ChainWith(I, x) == <<x>> \o ParentChain(I, x)

\* C1: in every reachable state no completed item has a direct child that is
\* not completed.
C1_CompletedHasNoIncompleteChild ==
    \A x \in DOMAIN items :
        items[x].is_completed =>
            \A c \in DOMAIN items :
                items[c].parent_id = x => items[c].is_completed

C3_ChildInParentsList ==
    \A x \in DOMAIN items :
        items[x].parent_id # None =>
            items[items[x].parent_id].list_id = items[x].list_id

\* the direct children of x, read off the parent_id column
Kids(I, x) == {c \in DOMAIN I : I[c].parent_id = x}

\* the completion flags of the rows of S are the same in I and J
SameFlags(I, J, S) ==
    \A i \in S : i \in DOMAIN J /\ J[i].is_completed = I[i].is_completed

\* C4: move_to_parent(a, x) with x = a or x a descendant of a returns the
\* 'Cannot move to descendant' error and changes no row.
C4_MoveUnderDescendantRefused ==
    [][(/\ last'.op = "move_to_parent"
        /\ last'.arg \in DOMAIN items
        /\ \/ last'.arg = last'.id
           \/ last'.id \in Ancestors(items, last'.arg))
       => (/\ last'.res = "Cannot move to descendant"
           /\ items' = items)]_vars

\* C5: update_item with is_completed true succeeds exactly when every direct
\* child of the item is completed (none at all included); otherwise it
\* returns the 'child tasks must be completed first' error and the flag of
\* the item stays as it was.
C5_CompleteOnlyWhenChildrenCompleted ==
    [][(/\ last'.op = "update_item"
        /\ last'.arg = [is_completed |-> TRUE])
       => LET x == last'.id
              ready == \A c \in Kids(items, x) : items[c].is_completed
          IN  /\ (last'.res = OK) <=> ready
              /\ ready => items'[x].is_completed
              /\ ~ready =>
                   /\ last'.res =
                        "Cannot complete task: child tasks must be completed first"
                   /\ items'[x].is_completed = items[x].is_completed]_vars

\* C5, its case: the completion of a parent was refused while one of its two
\* children is completed and the other is not
C5_Witness ==
    /\ last.op = "update_item"
    /\ last.arg = [is_completed |-> TRUE]
    /\ last.res # OK
    /\ ~items[last.id].is_completed
    /\ \E c, d \in Kids(items, last.id) :
           items[c].is_completed /\ ~items[d].is_completed

\* the ancestors of x up to the k-th of chain (chain[1] = x) have, before the
\* call, no incomplete child beside the one the chain comes up through
UnbrokenUpTo(I, chain, k) ==
    \A j \in 2..k :
        \A c \in Kids(I, chain[j]) \ {chain[j - 1]} : I[c].is_completed

\* C6: when update_item completes an item, every ancestor up to which the
\* chain is unbroken (each ancestor on the way has all its other children
\* completed) is completed when the call returns.
C6_AncestorsAutoCompleted ==
    [][(/\ last'.op = "update_item"
        /\ last'.arg = [is_completed |-> TRUE]
        /\ last'.res = OK)
       => LET chain == ChainWith(items, last'.id)
          IN  \A k \in 2..Len(chain) :
                  UnbrokenUpTo(items, chain, k)
                      => items'[chain[k]].is_completed]_vars

\* C6, its case: completing the only child C of B, itself the only child of
\* A, has completed B and A
C6_Witness ==
    /\ last.op = "update_item"
    /\ last.arg = [is_completed |-> TRUE]
    /\ last.res = OK
    /\ ~last.was_completed
    /\ Len(ParentChain(items, last.id)) = 2
    /\ \A a \in Ancestors(items, last.id) : items[a].is_completed

\* C7: when update_item sets a completed item to incomplete, the item and all
\* its ancestors up to the root are incomplete afterwards and every other
\* row (siblings, descendants) keeps its flag.
C7_UncompleteClearsAncestors ==
    [][(/\ last'.op = "update_item"
        /\ last'.arg = [is_completed |-> FALSE]
        /\ items[last'.id].is_completed)
       => LET x == last'.id
              up == Ancestors(items, x)
          IN  /\ last'.res = OK
              /\ ~items'[x].is_completed
              /\ \A a \in up : ~items'[a].is_completed
              /\ SameFlags(items, items', DOMAIN items \ (up \cup {x}))]_vars

\* C7, its case: a completed item with a parent and a completed child was
\* set to incomplete
C7_Witness ==
    /\ last.op = "update_item"
    /\ last.arg = [is_completed |-> FALSE]
    /\ last.was_completed
    /\ Len(ParentChain(items, last.id)) = 1
    /\ \E c \in Kids(items, last.id) : items[c].is_completed

\* C8: after a move_to_parent that changes the parent of the item, the old
\* parent and the new parent, when they were completed, are not completed,
\* and neither are their ancestors.
C8_MoveUncompletesBothParents ==
    [][(/\ last'.op = "move_to_parent"
        /\ last'.res = OK
        /\ items'[last'.id].parent_id # items[last'.id].parent_id)
       => \A p \in {items[last'.id].parent_id, last'.arg} \ {None} :
              items[p].is_completed =>
                  /\ ~items'[p].is_completed
                  /\ \A a \in Ancestors(items', p) : ~items'[a].is_completed]_vars

\* C9: create_item under a completed parent leaves the parent and all its
\* ancestors incomplete, the new item incomplete, and the flags of the
\* parent's other children as they were.
C9_CreateUnderCompletedParent ==
    [][(/\ last'.op = "create_item"
        /\ last'.res = OK
        /\ last'.arg # None
        /\ items[last'.arg].is_completed)
       => LET p == last'.arg
          IN  /\ ~items'[p].is_completed
              /\ \A a \in Ancestors(items, p) : ~items'[a].is_completed
              /\ last'.id \in DOMAIN items' \ DOMAIN items
              /\ ~items'[last'.id].is_completed
              /\ items'[last'.id].parent_id = p
              /\ SameFlags(items, items', Kids(items, p))]_vars

\* C9, its case: the completed parent of the new item has another, completed
\* child
C9_Witness ==
    /\ last.op = "create_item"
    /\ last.res = OK
    /\ last.was_completed
    /\ \E c \in Kids(items, last.arg) : c # last.id /\ items[c].is_completed

\* C10: an update_item that returns an error leaves the table as it was
\* before the call, for the session and for what is committed.
C10_FailedUpdateChangesNothing ==
    [][(last'.op = "update_item" /\ last'.res # OK)
       => (items' = items /\ db' = db)]_vars

C13_MoveToListOnlyRoots ==
    [][last'.op = "move_to_list"
       => LET x == last'.id
          IN  /\ last'.res = OK => items[x].parent_id = None
              /\ items[x].parent_id # None =>
                   /\ last'.res = "Can only move top-level items"
                   /\ items'[x].list_id = items[x].list_id]_vars

\* C13, its case: the move of a child to another list than its own was
\* refused
C13_Witness ==
    /\ last.op = "move_to_list"
    /\ last.res = "Can only move top-level items"
    /\ items[last.id].parent_id # None
    /\ items[last.id].list_id # last.arg

C15_MoveToBadParentRefused ==
    [][(last'.op = "move_to_parent" /\ last'.arg # None)
       => LET x == last'.id
              p == last'.arg
              kept == /\ items'[x].parent_id = items[x].parent_id
                      /\ items'[x].order = items[x].order
          IN  /\ p \notin DOMAIN items =>
                   (last'.res = "Parent item not found" /\ kept)
              /\ (p \in DOMAIN items /\ items[p].list_id # items[x].list_id) =>
                   (last'.res = "Cannot move to different list" /\ kept)]_vars

\* C15, its case: the move under a row of another list was refused
C15_Witness ==
    /\ last.op = "move_to_parent"
    /\ last.res = "Cannot move to different list"
    /\ last.arg \in DOMAIN items
    /\ items[last.arg].list_id # items[last.id].list_id
    /\ items[last.id].parent_id # last.arg

\* C16: complete_all_tasks(list_id) leaves every row of the list completed,
\* whatever the hierarchy was, and returns the number of rows of the list
\* that were not completed before the call; called again at once it
\* returns 0.
C16_CompleteAllCountsFlipped ==
    [][last'.op = "complete_all_tasks"
       => LET l == last'.arg
          IN  /\ \A i \in DOMAIN items' :
                     items'[i].list_id = l => items'[i].is_completed
              /\ DOMAIN items' = DOMAIN items
              /\ last'.count =
                     Cardinality({i \in DOMAIN items :
                                     items[i].list_id = l
                                     /\ ~items[i].is_completed})
              /\ (last.op = "complete_all_tasks" /\ last.arg = l)
                     => last'.count = 0]_vars

\* C16, its case: the call completed a parent and its child, both not
\* completed before, and left a completed row of the list as it was
C16_Witness ==
    /\ last.op = "complete_all_tasks"
    /\ last.count = 2
    /\ Cardinality({i \in DOMAIN items : items[i].list_id = last.arg}) = 3
    /\ \E c \in DOMAIN items :
           /\ items[c].list_id = last.arg
           /\ items[c].parent_id # None

\* C20: in every state reached through create_item and update_item the
\* priority of every stored item is one of low, medium, high, urgent.
C20_StoredPrioritiesValid ==
    \A i \in DOMAIN items : items[i].priority \in VALID_PRIORITIES

ProtectedOps == {"GET /me", "GET /lists"}

\* C18: over the register, login, logout and protected requests of one
\* client, the client is authenticated (a protected route does not answer
\* 401) exactly when its last successful register or login was not followed
\* by a logout: a successful register or login leaves it authenticated as
\* that user, a logout leaves it not authenticated, and a failed login or
\* register and a protected request leave the session as it was.
C18_AuthenticatedSinceLoginUntilLogout ==
    /\ [](last.op = "init" => ~is_authenticated(session))
    /\ [][LET op == last'.op
              entered == /\ op \in {"POST /register", "POST /login"}
                         /\ last'.res \in {200, 201}
              refused == /\ op \in {"POST /register", "POST /login"}
                         /\ last'.res \notin {200, 201}
          IN  /\ entered =>
                   /\ is_authenticated(session')
                   /\ get_current_user_id(session') = last'.id
                   /\ users'[last'.id].username = last'.arg.username
              /\ refused => session' = session
              /\ op = "POST /logout" => ~is_authenticated(session')
              /\ op \in ProtectedOps =>
                   /\ session' = session
                   /\ (last'.res = 401) <=> ~is_authenticated(session)]_vars

\* C18, its case: a login with a wrong password was answered 401 while the
\* client was authenticated as another user, and it still is
C18_Witness ==
    /\ last.op = "POST /login"
    /\ last.res = 401
    /\ \E u \in DOMAIN users : users[u].username = last.arg.username
    /\ is_authenticated(session)
    /\ session.username # last.arg.username

\* no two rows of users have the same username or the same email
UniqueUsers ==
    \A u, v \in DOMAIN users :
        u # v => /\ users[u].username # users[v].username
                 /\ users[u].email # users[v].email

\* the username or the email of the request is that of a row of U
Taken(U, data) ==
    \E u \in DOMAIN U :
        U[u].username = data.username \/ U[u].email = data.email

\* C19: no two users share a username and no two share an email: a
\* registration whose username or email is that of an existing user is
\* answered 409, creates no user and creates no session.
C19_DuplicateRegistrationAnswered409 ==
    /\ []UniqueUsers
    /\ [][(last'.op = "POST /register" /\ Taken(users, last'.arg))
          => (/\ last'.res = 409
              /\ users' = users
              /\ session' = session)]_vars

\* C19, amended: no two users share a username and no two share an email: a
\* registration whose username or email is that of an existing user creates
\* no user and no session; it is answered 409 when the request passes the
\* field checks of the route and 400 when it does not.
C19_DuplicateRegistrationRefused ==
    /\ []UniqueUsers
    /\ [][(last'.op = "POST /register" /\ Taken(users, last'.arg))
          => (/\ users' = users
              /\ session' = session
              /\ last'.res =
                   IF register_checks(last'.arg.username, last'.arg.email,
                                      last'.arg.password) = 200
                   THEN 409 ELSE 400)]_vars

\* C19, its case: a registration with a new username and the email of an
\* existing user was answered 409 while the client was authenticated
C19_Witness ==
    /\ last.op = "POST /register"
    /\ last.res = 409
    /\ \A u \in DOMAIN users : users[u].username # last.arg.username
    /\ \E u \in DOMAIN users : users[u].email = last.arg.email
    /\ is_authenticated(session)

\* the read, update and delete routes of a list and of an item
ListRouteOps ==
    {"GET /lists/<id>", "PUT /lists/<id>", "DELETE /lists/<id>",
     "PATCH /lists/<id>/complete-all"}
ItemRouteOps ==
    {"GET /items/<id>", "PUT /items/<id>", "DELETE /items/<id>",
     "PATCH /items/<id>/move", "PATCH /items/<id>/move-to-parent"}

\* every item is in a list that exists, so that item.list is a row
ItemsHaveLists == \A i \in DOMAIN items : items[i].list_id \in DOMAIN lists

\* the user that owns the list the item is in
OwnerOfItem(L, I, x) == L[I[x].list_id].user_id

\* C17: for an authenticated user U and a list or an item owned by another
\* user, every read, update and delete request of U on it is answered 403
\* and leaves that list or item and everything else in the store as it was.
C17_ForeignRequestsAnswered403 ==
    [][LET op == last'.op
           x == last'.id
           U == get_current_user_id(session)
           foreign_list == /\ op \in ListRouteOps
                           /\ x \in DOMAIN lists
                           /\ lists[x].user_id # U
           foreign_item == /\ op \in ItemRouteOps
                           /\ x \in DOMAIN items
                           /\ items[x].list_id \in DOMAIN lists
                           /\ OwnerOfItem(lists, items, x) # U
       IN  (is_authenticated(session) /\ (foreign_list \/ foreign_item))
           => (/\ last'.res = 403
               /\ items' = items
               /\ db' = db
               /\ lists' = lists
               /\ users' = users
               /\ session' = session)]_vars

\* C17, its case: the request of an authenticated user to delete an item
\* that has a child, in the list of another user, was answered 403
C17_Witness ==
    /\ last.op = "DELETE /items/<id>"
    /\ last.res = 403
    /\ is_authenticated(session)
    /\ last.id \in DOMAIN items
    /\ OwnerOfItem(lists, items, last.id) # get_current_user_id(session)
    /\ Kids(items, last.id) # {}

\* the rows that are in the scope the item is moved to (the children of
\* new_parent_id, or the root items of the item's list), the item apart
SiblingsIn(I, x, new_parent_id) ==
    IF new_parent_id = None
    THEN {i \in DOMAIN I \ {x} : I[i].list_id = I[x].list_id
                                 /\ I[i].parent_id = None}
    ELSE {i \in DOMAIN I \ {x} : I[i].parent_id = new_parent_id}

\* C21: after a move_to_parent that succeeds and changes the parent, the
\* order of the moved item is 1 plus the largest order among the rows that
\* were already children of the new parent (already root items of the list
\* for new_parent_id None; 1 when there are none), and so greater than the
\* order of every other sibling in the new scope.
C21_MovedOrderIsMaxOfSiblingsPlusOne ==
    [][(/\ last'.op = "move_to_parent"
        /\ last'.res = OK
        /\ items'[last'.id].parent_id # items[last'.id].parent_id)
       => LET x == last'.id
              were == SiblingsIn(items, x, last'.arg)
          IN  /\ items'[x].order = 1 + MaxOf({items[i].order : i \in were})
              /\ \A s \in SiblingsIn(items', x, last'.arg) :
                     items'[x].order > items'[s].order]_vars

\* C22: move_to_parent with new_parent_id equal to the parent_id the item has
\* (None for a root item included) succeeds and changes nothing: the order of
\* the item and the completion flags of the item, of its parent and of all
\* its ancestors are as before the call, as is every other row.
C22_MoveToSameParentChangesNothing ==
    [][(/\ last'.op = "move_to_parent"
        /\ last'.arg = items[last'.id].parent_id)
       => (/\ last'.res = OK
           /\ items' = items
           /\ db' = db)]_vars

\* C23: in every state reached through create_list, delete_list, create_item
\* and move_to_list (a move to a target id that names no list included) the
\* list_id of every item is the id of a list that exists.
C23_ItemsReferenceExistingLists ==
    \A i \in DOMAIN items : \E l \in DOMAIN lists : items[i].list_id = l

\* the committed rows after the call t1 and then the call t2, each run alone
\* on what was committed before it
Serial(B, t1, t2) ==
    LET r1 == RunOp(B, t1)
        B1 == IF r1.commit THEN r1.items ELSE B
        r2 == RunOp(B1, t2)
    IN  IF r2.commit THEN r2.items ELSE B1

\* C24: when two calls (update_item, move_to_parent) on the same tree run at
\* the same time, each reading the rows it needs and then writing and
\* committing, the committed table after both is the one that running the
\* two calls one after the other, in one of the two orders, leaves.
C24_ConcurrentCallsSerializable ==
    [][(/\ last'.op = "commit"
        /\ last.op = "commit"
        /\ last.read = last.before
        /\ last'.read = last.read)
       => LET B == last.read
              t1 == Tx(last.tx_op, last.id, last.arg, B)
              t2 == Tx(last'.tx_op, last'.id, last'.arg, B)
          IN  db' \in {Serial(B, t1, t2), Serial(B, t2, t1)}]_vars

C26_AutoCompleteStopsAtFirstIncomplete ==
    [][(/\ last'.op = "update_item"
        /\ last'.arg = [is_completed |-> TRUE]
        /\ last'.res = OK)
       => LET chain == ChainWith(items, last'.id)
          IN  \A k \in 2..Len(chain) :
                  ~UnbrokenUpTo(items, chain, k)
                      => items'[chain[k]].is_completed
                             = items[chain[k]].is_completed]_vars

\* C26, its case: an item was completed whose parent has another, incomplete
\* child; above the parent is an ancestor that is not completed although all
\* its children are
C26_Witness ==
    /\ last.op = "update_item"
    /\ last.arg = [is_completed |-> TRUE]
    /\ last.res = OK
    /\ ~last.was_completed
    /\ Len(ParentChain(items, last.id)) = 2
    /\ LET P == ParentChain(items, last.id)[1]
           G == ParentChain(items, last.id)[2]
       IN  /\ \E s \in Kids(items, P) : ~items[s].is_completed
           /\ ~items[G].is_completed
           /\ \A c \in Kids(items, G) : items[c].is_completed

\* C27: update_item with is_completed false always succeeds and, whether the
\* item was completed or not before the call, leaves the item and every one
\* of its ancestors not completed.
C27_UncompleteLeavesChainIncomplete ==
    [][(/\ last'.op = "update_item"
        /\ last'.arg = [is_completed |-> FALSE])
       => (/\ last'.res = OK
           /\ ~items'[last'.id].is_completed
           /\ \A a \in Ancestors(items', last'.id) :
                  ~items'[a].is_completed)]_vars

\* the rows whose is_completed differs between the tables I and J
FlagChanged(I, J) ==
    {x \in DOMAIN I \cap DOMAIN J : I[x].is_completed # J[x].is_completed}

\* the ancestors of x in the table I; none when I has no row x
ChainOf(I, x) == IF x \in DOMAIN I THEN Ancestors(I, x) ELSE {}

\* C28: a create_item, update_item or move_to_parent call changes the
\* completion flag of no descendant of the item it acts on: every flag that
\* changes is the item's own or that of an ancestor on its old or new chain.
C28_CompletionChangesStayOnChain ==
    [][(last'.op \in {"create_item", "update_item", "move_to_parent"})
       => (/\ FlagChanged(items, items')
                  \cap (Descendants(items, last'.id)
                        \cup Descendants(items', last'.id)) = {}
           /\ FlagChanged(items, items')
                  \subseteq ({last'.id} \cup ChainOf(items, last'.id)
                             \cup ChainOf(items', last'.id)))]_vars

\* an item with a completed descendant was uncompleted, and the descendant
\* is still completed
C28_Witness ==
    /\ last.op = "update_item"
    /\ last.arg = [is_completed |-> FALSE]
    /\ last.res = OK
    /\ last.was_completed
    /\ \E d \in Descendants(items, last.id) : items[d].is_completed

\* C29: a GET, PUT or DELETE request of an authenticated user on an item id
\* or a list id that the store does not have is answered 404, and the store
\* is left as it was.
C29_MissingIdAnswered404 ==
    [][(/\ is_authenticated(session)
        /\ \/ /\ last'.op \in {"GET /items/<id>", "PUT /items/<id>",
                               "DELETE /items/<id>"}
              /\ last'.id \notin DOMAIN items
           \/ /\ last'.op \in {"GET /lists/<id>", "PUT /lists/<id>",
                               "DELETE /lists/<id>"}
              /\ last'.id \notin DOMAIN lists)
       => (/\ last'.res = 404
           /\ items' = items /\ db' = db /\ lists' = lists)]_vars

\* C30: over the requests of any users an item stays in a list of the user
\* who owned the list it was created in: no request changes the owner of a
\* row's list, a move to a target list that the caller does not own or that
\* does not exist is refused and leaves list_id as it was, and an item is
\* created only in a list the caller owns.
C30_ItemsStayWithTheirOwner ==
    [][/\ \A x \in DOMAIN items \cap DOMAIN items' :
              OwnerOfItem(lists', items', x) = OwnerOfItem(lists, items, x)
       /\ (/\ last'.op = "PATCH /items/<id>/move"
           /\ "target_list_id" \in DOMAIN last'.arg
           /\ ~owns_list(session, lists, last'.arg.target_list_id))
          => (last'.res # 200 /\ items' = items)
       /\ (last'.op = "POST /items" /\ last'.res = 201)
          => (/\ owns_list(session, lists, last'.arg.list_id)
              /\ OwnerOfItem(lists', items', last'.id)
                     = get_current_user_id(session))]_vars

\* a user asked to move an item of theirs to the list of another user and
\* was refused
C30_Witness ==
    /\ last.op = "PATCH /items/<id>/move"
    /\ last.res = 404
    /\ owns_item(session, lists, items, last.id)
    /\ last.arg.target_list_id \in DOMAIN lists
    /\ lists[last.arg.target_list_id].user_id # get_current_user_id(session)

====
